---- MODULE Spec2Model ----
(***************************************************************************)
(* A model of the Apple gift card checker (class AppleGiftCardChecker of   *)
(* apple_gift_card_checker.js, its example main and the CSV processor).    *)
(*                                                                         *)
(* JavaScript strings are TLA+ strings (sequences of characters).  The     *)
(* Chinese literals of the source are written in pinyin, since a TLA+      *)
(* string holds ASCII only:                                                *)
(*   youxiao = valid (U+6709 U+6548)      wuxiao = invalid (U+65E0 U+6548) *)
(*   yiduihuan = already redeemed         cuowu = error                    *)
(*   weizhi = unknown                     shibai = failed                  *)
(*   duihuanshibai = redemption failed    yue = balance                    *)
(* and the yen sign (U+00A5) is written "yen", the yuan character "yuan".  *)
(* A page's text is a sequence of lexemes (words, currency signs, numbers, *)
(* "nl" for a line break); a regular expression of the source is modelled  *)
(* by what it matches on such a sequence.                                  *)
(***************************************************************************)
EXTENDS Integers, Sequences, FiniteSets, TLC

VARIABLES
    \* --- the checker and the batch run (specification Spec) ---
    pc,                 \* position of the single thread of control
    mode,               \* "check" (processBatch) or "redeem" (redeemBatch)
    config,             \* this.config
    browser,            \* this.browser: "null", "open" or "closed"
    codes,              \* the argument of processBatch / redeemBatch
    i,                  \* the loop index of the batch
    results,            \* this.results
    redemptionResults,  \* the local list of redeemBatch
    attempt,            \* the attempt parameter of checkBalance / redeemCard
    result,             \* the record checkBalance / redeemCard returns
    error,              \* error.message of the caught error
    openPages,          \* pages the checker opened and has not closed
    navs,               \* page.goto calls made by the current call
    pauses,             \* delay(delayBetweenCards) calls made by the batch
    submit,             \* the submit step of the attempt: candidate probed next,
                        \* the submitted flag, clicks and Enter presses done
    \* --- a front end around the checker (specification SpecRun) ---
    frontEnd,           \* "main", "csv", "cli" or "caller"
    validCards,         \* the list main passes to redeemBatch
    jsonFile,           \* what saveResults wrote to <filename>
    csvFile,            \* what saveCSV wrote to <filename>.csv
    \* --- calls of the pure methods (specification SpecPure) ---
    unitPc,             \* "input" before the call, "returned" after it
    argCode,            \* the code argument
    pageText,           \* the pageText argument
    pageHTML,           \* the pageHTML argument
    ret                 \* what the call returned

batchVars == <<pc, mode, config, browser, codes, i, results, redemptionResults,
               attempt, result, error, openPages, navs, pauses, submit>>
runVars == <<frontEnd, validCards, jsonFile, csvFile>>
unitVars == <<unitPc, argCode, pageText, pageHTML, ret>>
vars == <<batchVars, runVars, unitVars>>

----------------------------------------------------------------------------
(* Bounds of the model *)

MaxCodeLen == 9      \* codes given to maskCode: every string up to this length
MaxPhrases == 2      \* page texts: up to this many phrases
MaxCodes == 2        \* length of a batch
MaxRetry == 2        \* configured retryAttempts: 0 .. MaxRetry

----------------------------------------------------------------------------
(* JavaScript values *)

NULL == "null"
\* a missing argument (undefined / null): falsy, and no string
Undefined == "<undefined>"

Min(a, b) == IF a < b THEN a ELSE b
Max(a, b) == IF a > b THEN a ELSE b

\* String.prototype.substring(start, end): 0-based, end exclusive, both
\* clamped to [0, length] and swapped when start > end
substring(s, start, end) ==
    LET n == Len(s)
        a == Min(Max(start, 0), n)
        b == Min(Max(end, 0), n)
    IN SubSeq(s, Min(a, b) + 1, Max(a, b))

\* !code
Falsy(code) == code = Undefined \/ code = ""

----------------------------------------------------------------------------
(* maskCode *)

maskCodeAtEight(code) ==
    IF Falsy(code) \/ Len(code) <= 8 THEN "****-****"
    ELSE substring(code, 0, 4) \o "-****-****-" \o substring(code, Len(code) - 4, Len(code))

maskCodeOffByOne(code) ==
    IF Falsy(code) \/ Len(code) < 8 THEN "****-****"
    ELSE substring(code, 1, 5) \o "-****-****-" \o substring(code, Len(code) - 4, Len(code))

maskCode(code) ==
    IF Falsy(code) \/ Len(code) < 8 THEN "****-****"
    ELSE substring(code, 0, 4) \o "-****-****-" \o substring(code, Len(code) - 4, Len(code))

----------------------------------------------------------------------------
(* Regular expressions over lexeme sequences *)

Numbers == {"88.00", "25"}            \* lexemes matching \d+\.?\d*
IsSpace(t) == t = "nl"                \* lexemes matching \s (blanks are not lexemes)

\* an alternative that is a literal phrase
Lit(w) == <<"lit", w>>
\* an alternative a.*b ('.' does not match a line break)
Gap(a, b) == <<"gap", a, b>>

AltTest(alt, text) ==
    IF alt[1] = "lit"
    THEN \E k \in 1..Len(text) : text[k] = alt[2]
    ELSE \E k \in 1..Len(text) : \E m \in (k + 1)..Len(text) :
            /\ text[k] = alt[2]
            /\ text[m] = alt[3]
            /\ \A j \in (k + 1)..(m - 1) : text[j] # "nl"

\* RegExp.prototype.test of an alternation
Test(pattern, text) == \E alt \in pattern : AltTest(alt, text)

\* the first lexeme after position k that is not white space; 0 if none
NextNonSpace(text, k) ==
    LET after == {m \in (k + 1)..Len(text) : ~IsSpace(text[m])}
    IN IF after = {} THEN 0 ELSE CHOOSE m \in after : \A o \in after : m <= o

\* the first number after position k on the same line; 0 if none
NextNumberOnLine(text, k) ==
    LET after == {m \in (k + 1)..Len(text) :
                     /\ text[m] \in Numbers
                     /\ \A j \in (k + 1)..(m - 1) : text[j] # "nl"}
    IN IF after = {} THEN 0 ELSE CHOOSE m \in after : \A o \in after : m <= o

\* amount patterns:  sym\s*(number)   (number)\s*sym   word.*?(number)
SymNum(sym) == <<"symnum", sym>>
NumSym(sym) == <<"numsym", sym>>
WordNum(word) == <<"wordnum", word>>

\* where pattern p matches starting at position k: the position of the
\* captured number, 0 if it does not match there
MatchAt(p, text, k) ==
    IF p[1] = "symnum"
    THEN IF text[k] = p[2] /\ NextNonSpace(text, k) # 0
            /\ text[NextNonSpace(text, k)] \in Numbers
         THEN NextNonSpace(text, k) ELSE 0
    ELSE IF p[1] = "numsym"
    THEN IF text[k] \in Numbers /\ NextNonSpace(text, k) # 0
            /\ text[NextNonSpace(text, k)] = p[2]
         THEN k ELSE 0
    ELSE IF text[k] = p[2] THEN NextNumberOnLine(text, k) ELSE 0

\* the lexemes text[a..b] joined into one string
RECURSIVE Join(_, _, _)
Join(text, a, b) == IF a > b THEN "" ELSE text[a] \o Join(text, a + 1, b)

\* the result of a match that found nothing (null)
NoMatch == <<>>

\* String.prototype.match(p): the leftmost match, as <<match[0], match[1]>>
\* (the whole match, the captured number), or NoMatch
Match(p, text) ==
    LET starts == {k \in 1..Len(text) : MatchAt(p, text, k) # 0}
    IN IF starts = {} THEN NoMatch
       ELSE LET k == CHOOSE s \in starts : \A o \in starts : s <= o
                m == MatchAt(p, text, k)
                last == IF p[1] = "wordnum" THEN m ELSE NextNonSpace(text, k)
            IN <<Join(text, k, last), text[m]>>

\* the first pattern of the list that matches: its index, 0 if none
\* (for (const pattern of patterns) { if (pattern.test(text)) ... return })
FirstTest(patterns, text) ==
    LET hits == {k \in 1..Len(patterns) : Test(patterns[k], text)}
    IN IF hits = {} THEN 0 ELSE CHOOSE k \in hits : \A o \in hits : k <= o

\* the first pattern of the list with a match: its index, 0 if none
FirstMatch(patterns, text) ==
    LET hits == {k \in 1..Len(patterns) : Match(patterns[k], text) # NoMatch}
    IN IF hits = {} THEN 0 ELSE CHOOSE k \in hits : \A o \in hits : k <= o

----------------------------------------------------------------------------
(* parseBalanceResult *)

\* /wuxiao|invalid|incorrect/i, /bucunzai|not found/i,
\* /yi.*duihuan|already.*redeemed/i, /guoqi|expired/i, /cuowu|error/i
errorPatterns ==
    << {Lit("wuxiao"), Lit("invalid"), Lit("incorrect")},
       {Lit("bucunzai"), Lit("not found")},
       {Gap("yi", "duihuan"), Gap("already", "redeemed")},
       {Lit("guoqi"), Lit("expired")},
       {Lit("cuowu"), Lit("error")} >>

\* the pattern tested again inside the loop: /yi.*duihuan|already.*redeemed/i
alreadyRedeemedRe == {Gap("yi", "duihuan"), Gap("already", "redeemed")}

\* yen sign amount, amount yuan, yue (balance) ... amount, balance ... amount
cnBalancePatterns ==
    << SymNum("yen"), NumSym("yuan"), WordNum("yue"), WordNum("balance") >>

\* $ amount, USD amount, amount USD
usBalancePatterns ==
    << SymNum("$"), SymNum("USD"), NumSym("USD") >>

\* the body of the error loop decided by the pattern that matched
lookupErrorFieldsByPattern(pattern, text) ==
    IF pattern = alreadyRedeemedRe
    THEN [status |-> "yiduihuan", message |-> "this gift card has already been redeemed"]
    ELSE [status |-> "wuxiao", message |-> "card number invalid or wrong"]

\* the body of the error loop, for the pattern that matched
lookupErrorFields(pattern, text) ==
    IF Test(alreadyRedeemedRe, text)
    THEN [status |-> "yiduihuan", message |-> "this gift card has already been redeemed"]
    ELSE [status |-> "wuxiao", message |-> "card number invalid or wrong"]

\* the amount pattern lists tried first the active region's
balancePatternListsByRegion(self) ==
    IF self.config.region = "us"
    THEN << [patterns |-> usBalancePatterns, currency |-> "$"],
            [patterns |-> cnBalancePatterns, currency |-> "yen"] >>
    ELSE << [patterns |-> cnBalancePatterns, currency |-> "yen"],
            [patterns |-> usBalancePatterns, currency |-> "$"] >>

\* the amount pattern lists in the order the two loops try them
balancePatternLists(self) ==
    << [patterns |-> cnBalancePatterns, currency |-> "yen"],
       [patterns |-> usBalancePatterns, currency |-> "$"] >>

\* pageHTML.match(/[$ yen]\s*(\d+\.?\d*)/): the leftmost currency sign followed
\* by a number, as <<match[0], match[1], match[0].charAt(0)>>, or NoMatch
htmlMatch(html) ==
    LET starts == {k \in 1..Len(html) :
                     \E p \in {SymNum("$"), SymNum("yen")} : MatchAt(p, html, k) # 0}
    IN IF starts = {} THEN NoMatch
       ELSE LET k == CHOOSE s \in starts : \A o \in starts : s <= o
            IN <<Join(html, k, NextNonSpace(html, k)), html[NextNonSpace(html, k)], html[k]>>

\* parseBalanceResult with the error patterns listed as errPatterns
parseBalanceResultWith(errPatterns, self, text, html, code, now) ==
    LET r0 == [code |-> maskCode(code), status |-> "weizhi", balance |-> NULL,
               currency |-> NULL, message |-> NULL, timestamp |-> now]
        e == FirstTest(errPatterns, text)
        lists == balancePatternLists(self)
        l1 == FirstMatch(lists[1].patterns, text)
        l2 == FirstMatch(lists[2].patterns, text)
        amount(list, k) == Match(list.patterns[k], text)[2]
        valid(list, k) == [r0 EXCEPT !.status = "youxiao",
                                     !.balance = amount(list, k),
                                     !.currency = list.currency,
                                     !.message = "yue: " \o list.currency \o amount(list, k)]
        h == htmlMatch(html)
    IN IF e # 0
       THEN [r0 EXCEPT !.status = lookupErrorFields(errPatterns[e], text).status,
                       !.message = lookupErrorFields(errPatterns[e], text).message]
       ELSE IF l1 # 0 THEN valid(lists[1], l1)
       ELSE IF l2 # 0 THEN valid(lists[2], l2)
       ELSE IF h # NoMatch
       THEN [r0 EXCEPT !.status = "youxiao", !.balance = h[2], !.currency = h[3],
                       !.message = "yue: " \o h[1]]
       ELSE [r0 EXCEPT !.status = "weizhi", !.message = "cannot parse the result"]

parseBalanceResult(self, text, html, code, now) ==
    parseBalanceResultWith(errorPatterns, self, text, html, code, now)

----------------------------------------------------------------------------
(* parseRedemptionResult *)

\* /success|redeemed|added.*account|credited/i, /yi.*duihuan|chenggong/i
successPatterns ==
    << {Lit("success"), Lit("redeemed"), Gap("added", "account"), Lit("credited")},
       {Gap("yi", "duihuan"), Lit("chenggong")} >>

redeemErrorPatterns ==
    << [pattern |-> {Gap("already", "used"), Gap("already", "redeemed"),
                     Gap("yi", "shiyong"), Gap("yi", "duihuan")},
        message |-> "code already used"],
       [pattern |-> {Lit("invalid"), Lit("incorrect"), Lit("wuxiao")},
        message |-> "invalid code"],
       [pattern |-> {Lit("expired"), Lit("guoqi")},
        message |-> "code expired"],
       [pattern |-> {Lit("region"), Lit("country"), Lit("diqu")},
        message |-> "code not valid in this region"],
       [pattern |-> {Lit("error"), Lit("cuowu")},
        message |-> "error while redeeming"] >>

parseRedemptionResult(self, text, html, code, now) ==
    LET r0 == [code |-> maskCode(code), status |-> "weizhi", message |-> NULL,
               timestamp |-> now]
        s == FirstTest(successPatterns, text)
        e == FirstTest([k \in 1..Len(redeemErrorPatterns) |-> redeemErrorPatterns[k].pattern],
                       text)
    IN IF s # 0
       THEN [r0 EXCEPT !.status = "yiduihuan",
                       !.message = "successfully redeemed to the account"]
       ELSE IF e # 0
       THEN [r0 EXCEPT !.status = "shibai", !.message = redeemErrorPatterns[e].message]
       ELSE [r0 EXCEPT !.status = "weizhi", !.message = "cannot determine the redemption status"]

----------------------------------------------------------------------------
(* the terminal records of checkBalance and redeemCard *)

checkBalanceFailure(self, code, message, now) ==
    [code |-> maskCode(code), status |-> "cuowu", balance |-> NULL, currency |-> NULL,
     message |-> message, timestamp |-> now]

redeemCardFailure(self, code, message, now) ==
    [code |-> maskCode(code), status |-> "duihuanshibai", message |-> message,
     timestamp |-> now]

----------------------------------------------------------------------------
(* Calls of the pure methods on inputs drawn from bounded sets *)

CodeChars == {"A", "7"}

RECURSIVE Strings(_)
Strings(n) == IF n = 0 THEN {""}
              ELSE Strings(n - 1) \cup {s \o c : s \in {t \in Strings(n - 1) : Len(t) = n - 1},
                                                 c \in CodeChars}

\* codes of the example main, a code that has the shape of a masked code, and
\* no code at all
SampleCodes == {"X87L-WQ5G-7FW3-VGCW", "XNZ3-PMLP-YTNQ-GT7N", "XXXX-****-****-XXXX"}
CodeInputs == Strings(MaxCodeLen) \cup SampleCodes \cup {Undefined}

\* phrases a result page may show
Phrases ==
    { <<"yi", "duihuan">>, <<"yi", "nl", "duihuan">>, <<"already", "redeemed">>,
      <<"invalid">>, <<"not found">>, <<"expired">>, <<"error">>, <<"region">>,
      <<"success">>, <<"yen", "88.00">>, <<"$", "25">>, <<"88.00", "yuan">>,
      <<"25", "USD">>, <<"balance">>, <<"nl">> }

RECURSIVE Texts(_)
Texts(n) == IF n = 0 THEN {<<>>}
            ELSE Texts(n - 1) \cup {t \o p : t \in Texts(n - 1), p \in Phrases}

PageTexts == Texts(MaxPhrases)
PageHTMLs == { <<"body">>, <<"span", "$", "25">>, <<"span", "yen", "nl", "88.00">> }

Regions == {"cn", "us"}
Clock == {1, 2}
\* the checkers a method may be called on
Callers == {[config |-> [region |-> r], results |-> <<>>] : r \in Regions}
ErrorMessages == {"Navigation timeout", "cannot find the gift card input"}

PureInputs ==
    {[code |-> c, text |-> <<"yen", "88.00">>, html |-> <<"body">>] : c \in CodeInputs}
    \cup {[code |-> "X87L-WQ5G-7FW3-VGCW", text |-> t, html |-> h] :
            t \in PageTexts, h \in PageHTMLs}

NoCall == [f |-> "none", self |-> NULL, arg |-> NULL, value |-> NULL]

\* outside the submit step
NoSubmit == [selector |-> 0, submitted |-> FALSE, clicks |-> 0, enters |-> 0]

\* a file that was not written
NoFile == [written |-> FALSE, name |-> "", results |-> <<>>, rows |-> <<>>]

RunIdle ==
    /\ frontEnd = "none" /\ validCards = <<>> /\ jsonFile = NoFile
    /\ csvFile = NoFile

BatchIdle ==
    /\ pc = "off" /\ mode = "check" /\ config = NULL /\ browser = "null"
    /\ codes = <<>> /\ i = 0 /\ results = <<>> /\ redemptionResults = <<>>
    /\ attempt = 0 /\ result = NULL /\ error = NULL /\ openPages = 0
    /\ navs = 0 /\ pauses = 0 /\ submit = NoSubmit

InitPure ==
    /\ BatchIdle
    /\ RunIdle
    /\ unitPc = "input"
    /\ ret = NoCall
    /\ \E in \in PureInputs :
          /\ argCode = in.code
          /\ pageText = in.text
          /\ pageHTML = in.html

Return(f, self, value) ==
    /\ unitPc = "input"
    /\ unitPc' = "returned"
    /\ ret' = [f |-> f, self |-> self, arg |-> argCode, value |-> value]
    /\ UNCHANGED <<batchVars, runVars, argCode, pageText, pageHTML>>

CallMaskCode == Return("maskCode", NULL, maskCode(argCode))

\* maskCode applied to what maskCode returned
CallMaskCodeAgain ==
    /\ unitPc = "returned"
    /\ ret.f = "maskCode"
    /\ ret' = [f |-> "maskCode(maskCode)", self |-> NULL, arg |-> ret.value,
               value |-> maskCode(ret.value)]
    /\ UNCHANGED <<batchVars, runVars, unitPc, argCode, pageText, pageHTML>>

CallParseBalanceResult ==
    \E self \in Callers, now \in Clock :
        Return("parseBalanceResult", self,
               parseBalanceResult(self, pageText, pageHTML, argCode, now))

CallParseRedemptionResult ==
    \E self \in Callers, now \in Clock :
        Return("parseRedemptionResult", self,
               parseRedemptionResult(self, pageText, pageHTML, argCode, now))

CallCheckBalanceFailure ==
    \E self \in Callers, message \in ErrorMessages :
        Return("checkBalance", self, checkBalanceFailure(self, argCode, message, 1))

CallRedeemCardFailure ==
    \E self \in Callers, message \in ErrorMessages :
        Return("redeemCard", self, redeemCardFailure(self, argCode, message, 1))

NextPure ==
    \/ CallMaskCode
    \/ CallMaskCodeAgain
    \/ CallParseBalanceResult
    \/ CallParseRedemptionResult
    \/ CallCheckBalanceFailure
    \/ CallRedeemCardFailure

SpecPure == InitPure /\ [][NextPure]_vars

----------------------------------------------------------------------------
(* The checker: constructor, initialize, processBatch / redeemBatch,          *)
(* checkBalance / redeemCard, close                                           *)

DefaultRetryAttempts == 3
DefaultDelayBetweenCards == 3000

\* the options a front end passes to the constructor; 0 stands for an option
\* that is 0 or left out
OptionSets ==
    {[headless |-> h, screenshotOnError |-> s, retryAttempts |-> n, region |-> "cn",
      delayBetweenCards |-> 5000] : h \in BOOLEAN, s \in BOOLEAN, n \in 0..MaxRetry}

\* constructor(config): x || default, x !== false
Constructor(options) ==
    [headless |-> options.headless # FALSE,
     delayBetweenCards |-> IF options.delayBetweenCards = 0 THEN DefaultDelayBetweenCards
                           ELSE options.delayBetweenCards,
     retryAttempts |-> IF options.retryAttempts = 0 THEN DefaultRetryAttempts
                       ELSE options.retryAttempts,
     region |-> IF options.region = "" THEN "cn" ELSE options.region,
     screenshotOnError |-> options.screenshotOnError # FALSE]

BatchCodes == {"X87L-WQ5G-7FW3-VGCW", "XNZ3-PMLP-YTNQ-GT7N"}

RECURSIVE CodeLists(_)
CodeLists(n) == IF n = 0 THEN {<<>>}
                ELSE CodeLists(n - 1) \cup {Append(l, c) : l \in {m \in CodeLists(n - 1) : Len(m) = n - 1},
                                                          c \in BatchCodes}

\* what the result page may show once the code was submitted
BatchPageTexts == { <<"yen", "88.00">>, <<"yi", "duihuan">> }

UnitIdle ==
    /\ unitPc = "off" /\ argCode = "" /\ pageText = <<>> /\ pageHTML = <<>>
    /\ ret = NoCall

Init ==
    /\ UnitIdle
    /\ RunIdle
    /\ submit = NoSubmit
    /\ pc = "new"
    /\ mode \in {"check", "redeem"}
    /\ \E options \in OptionSets : config = Constructor(options)
    /\ browser = "null"
    /\ codes \in CodeLists(MaxCodes)
    /\ i = 0
    /\ results = <<>>
    /\ redemptionResults = <<>>
    /\ attempt = 0
    /\ result = NULL
    /\ error = NULL
    /\ openPages = 0
    /\ navs = 0
    /\ pauses = 0

self == [config |-> config, results |-> results]

\* the step at pc fails: control enters the catch block with error.message
Throw(message) ==
    /\ error' = message
    /\ pc' = "catch"

\* initialize(): puppeteer.launch resolves or rejects
Initialize ==
    /\ pc = "new"
    /\ \/ browser' = "open" /\ pc' = "ready"
       \/ browser' = browser /\ pc' = "thrown"
    /\ UNCHANGED <<mode, config, codes, i, results, redemptionResults, attempt, result,
                   error, openPages, navs, pauses, submit, unitVars, runVars>>

\* processBatch(codes) / redeemBatch(codes, appleId, password) is entered
StartBatch ==
    /\ pc = "ready"
    /\ pc' = "loop"
    /\ i' = 0
    /\ pauses' = 0
    /\ IF mode = "check"
       THEN results' = <<>> /\ UNCHANGED redemptionResults
       ELSE redemptionResults' = <<>> /\ UNCHANGED results
    /\ UNCHANGED <<mode, config, browser, codes, attempt, result, error, openPages, navs,
                   submit, unitVars, runVars>>

\* for (let i = 0; i < codes.length; i++): the call of checkBalance(code) /
\* redeemCard(code, ...) with attempt = 1, or the end of the loop
LoopHead ==
    /\ pc = "loop"
    /\ IF i < Len(codes)
       THEN /\ pc' = "newPage"
            /\ attempt' = 1
            /\ navs' = 0
            /\ result' = NULL
            /\ error' = NULL
       ELSE /\ pc' = "returned"
            /\ UNCHANGED <<attempt, navs, result, error>>
    /\ UNCHANGED <<mode, config, browser, codes, i, results, redemptionResults, openPages,
                   pauses, submit, unitVars, runVars>>

\* const page = await this.browser.newPage(), before the try block
NewPage ==
    /\ pc = "newPage"
    /\ \/ openPages' = openPages + 1 /\ pc' = "navigate" /\ UNCHANGED error
       \/ openPages' = openPages /\ pc' = "thrown" /\ error' = "Protocol error"
    /\ UNCHANGED <<mode, config, browser, codes, i, results, redemptionResults, attempt,
                   result, navs, pauses, submit, unitVars, runVars>>

\* page.setUserAgent (checkBalance only), page.goto, page.waitForTimeout
Navigate ==
    /\ pc = "navigate"
    /\ \/ mode = "check" /\ Throw("Protocol error") /\ UNCHANGED navs
       \/ navs' = navs + 1 /\ Throw("Navigation timeout")
       \/ /\ navs' = navs + 1
          /\ pc' = IF mode = "check" THEN "input" ELSE "login"
          /\ UNCHANGED error
    /\ UNCHANGED <<mode, config, browser, codes, i, results, redemptionResults, attempt,
                   result, openPages, pauses, submit, unitVars, runVars>>

\* redeemCard: checkIfLoginRequired (never throws), then loginToApple, which
\* rethrows what fails in it
Login ==
    /\ pc = "login"
    /\ \/ pc' = "input" /\ UNCHANGED error
       \/ Throw("cannot find the Apple ID input")
    /\ UNCHANGED <<mode, config, browser, codes, i, results, redemptionResults, attempt,
                   result, openPages, navs, pauses, submit, unitVars, runVars>>

\* the input field is looked up through the selector list (and, in
\* checkBalance, the first text input); none found throws
FindInput ==
    /\ pc = "input"
    /\ \/ pc' = "type" /\ UNCHANGED error
       \/ Throw("cannot find the code input")
    /\ UNCHANGED <<mode, config, browser, codes, i, results, redemptionResults, attempt,
                   result, openPages, navs, pauses, submit, unitVars, runVars>>

\* inputField.click(), page.waitForTimeout, inputField.type(code)
TypeCode ==
    /\ pc = "type"
    /\ \/ pc' = "submit" /\ submit' = [NoSubmit EXCEPT !.selector = 1]
          /\ UNCHANGED error
       \/ Throw("Protocol error") /\ UNCHANGED submit
    /\ UNCHANGED <<mode, config, browser, codes, i, results, redemptionResults, attempt,
                   result, openPages, navs, pauses, unitVars, runVars>>

\* const submitSelectors = [...] of checkBalance, const redeemButtonSelectors
\* = [...] of redeemCard; "chaxun" (query), "yue" (balance) and "duihuan"
\* (redeem) stand for the Chinese button labels
submitSelectors(m) ==
    IF m = "check"
    THEN << "button[type=submit]", "button:contains(chaxun)",
            "button:contains(Check)", "button:contains(yue)", ".button-submit",
            "#submit-button" >>
    ELSE << "button:contains(duihuan)", "button:contains(Redeem)",
            "button[type=submit]", "input[type=submit]", ".button-redeem",
            "#redeem-button" >>

\* a loop that goes on to the next candidate after a click
noBreak(k, n) == k + 1

\* break: the loop over the n candidates ends at candidate k
breakLoop(k, n) == n + 1

\* one turn of for (const selector of submitSelectors): page.$(selector)
\* throws or finds nothing, or button.click() rejects, and the loop goes on;
\* or the click resolves, submitted = true, break
ProbeSubmit ==
    /\ pc = "submit"
    /\ submit.selector <= Len(submitSelectors(mode))
    /\ \/ submit' = [submit EXCEPT !.selector = @ + 1]
       \/ submit' = [submit EXCEPT
                        !.clicks = @ + 1,
                        !.submitted = TRUE,
                        !.selector = breakLoop(@, Len(submitSelectors(mode)))]
    /\ UNCHANGED <<pc, mode, config, browser, codes, i, results, redemptionResults,
                   attempt, result, error, openPages, navs, pauses, unitVars, runVars>>

\* if (!submitted) await page.keyboard.press('Enter'), which may reject
PressEnter ==
    /\ pc = "submit"
    /\ submit.selector > Len(submitSelectors(mode))
    /\ IF ~submit.submitted
       THEN /\ submit' = [submit EXCEPT !.enters = @ + 1]
            /\ \/ pc' = "capture" /\ UNCHANGED error
               \/ Throw("Protocol error")
       ELSE pc' = "capture" /\ UNCHANGED <<error, submit>>
    /\ UNCHANGED <<mode, config, browser, codes, i, results, redemptionResults, attempt,
                   result, openPages, navs, pauses, unitVars, runVars>>

\* page.evaluate(innerText), page.content(), then the parser
Capture ==
    /\ pc = "capture"
    /\ \/ \E text \in BatchPageTexts :
            /\ result' = IF mode = "check"
                         THEN parseBalanceResult(self, text, <<"body">>, codes[i + 1], 0)
                         ELSE parseRedemptionResult(self, text, <<"body">>, codes[i + 1], 0)
            /\ pc' = "debugShot"
            /\ UNCHANGED error
       \/ Throw("Protocol error") /\ UNCHANGED result
    /\ submit' = NoSubmit
    /\ UNCHANGED <<mode, config, browser, codes, i, results, redemptionResults, attempt,
                   openPages, navs, pauses, unitVars, runVars>>

\* error.message of a page.screenshot that rejects (the screenshots directory
\* is missing, the disk is full, the target closed)
ScreenshotFailed == "screenshot failed"

\* if (screenshotOnError || !headless) await page.screenshot(...), inside the try
DebugScreenshot ==
    /\ pc = "debugShot"
    /\ IF config.screenshotOnError \/ ~config.headless
       THEN \/ pc' = "close" /\ UNCHANGED error
            \/ Throw(ScreenshotFailed)
       ELSE pc' = "close" /\ UNCHANGED error
    /\ UNCHANGED <<mode, config, browser, codes, i, results, redemptionResults, attempt,
                   result, openPages, navs, pauses, submit, unitVars, runVars>>

\* await page.close(); return result, inside the try
ClosePage ==
    /\ pc = "close"
    /\ \/ openPages' = openPages - 1 /\ pc' = "push" /\ UNCHANGED error
       \/ openPages' = openPages /\ Throw("Protocol error")
    /\ UNCHANGED <<mode, config, browser, codes, i, results, redemptionResults, attempt,
                   result, navs, pauses, submit, unitVars, runVars>>

\* the catch block without its page.close()
leftOpenInCatch(open) == open

\* await page.close() of the catch block, resolved
closedInCatch(open) == open - 1

\* the catch block: the error screenshot (its failure is swallowed), then
\* await page.close(), which is not guarded; a close that rejects leaves the
\* page open
CatchClose ==
    /\ pc = "catch"
    /\ \/ openPages' = closedInCatch(openPages) /\ pc' = "retry"
       \/ openPages' = openPages /\ pc' = "thrown"
    /\ submit' = NoSubmit
    /\ UNCHANGED <<mode, config, browser, codes, i, results, redemptionResults, attempt,
                   result, error, navs, pauses, unitVars, runVars>>

\* if (attempt < retryAttempts) { delay(5000); return this.checkBalance(code,
\* attempt + 1) } else return the terminal record
Retry ==
    /\ pc = "retry"
    /\ IF attempt < config.retryAttempts
       THEN /\ attempt' = attempt + 1
            /\ pc' = "newPage"
            /\ result' = NULL
       ELSE /\ result' = IF mode = "check"
                         THEN checkBalanceFailure(self, codes[i + 1], error, 0)
                         ELSE redeemCardFailure(self, codes[i + 1], error, 0)
            /\ pc' = "push"
            /\ UNCHANGED attempt
    /\ UNCHANGED <<mode, config, browser, codes, i, results, redemptionResults, error,
                   openPages, navs, pauses, submit, unitVars, runVars>>

\* list.push(result) put in front of the list instead
unshift(list, record) == <<record>> \o list

\* this.results.push(result) / redemptionResults.push(result)
push(list, record) == Append(list, record)

\* the pause also taken after the last code
pauseAfterEvery(index, n) == index < n

\* if (i < codes.length - 1) await this.delay(delayBetweenCards)
pauseNeeded(index, n) == index < n - 1

\* the record is appended; then the pause, or the next turn of the loop
Push ==
    /\ pc = "push"
    /\ IF mode = "check"
       THEN results' = push(results, result) /\ UNCHANGED redemptionResults
       ELSE redemptionResults' = push(redemptionResults, result) /\ UNCHANGED results
    /\ IF pauseNeeded(i, Len(codes))
       THEN pc' = "pause" /\ UNCHANGED i
       ELSE pc' = "loop" /\ i' = i + 1
    /\ UNCHANGED <<mode, config, browser, codes, attempt, result, error, openPages, navs,
                   pauses, submit, unitVars, runVars>>

\* await this.delay(this.config.delayBetweenCards); i++
Pause ==
    /\ pc = "pause"
    /\ pauses' = pauses + 1
    /\ i' = i + 1
    /\ pc' = "loop"
    /\ UNCHANGED <<mode, config, browser, codes, results, redemptionResults, attempt,
                   result, error, openPages, navs, submit, unitVars, runVars>>

\* finally { await checker.close() } of the front end
Close ==
    /\ pc \in {"returned", "thrown"}
    /\ browser' = IF browser = "open" THEN "closed" ELSE browser
    /\ pc' = "exit"
    /\ UNCHANGED <<mode, config, codes, i, results, redemptionResults, attempt, result,
                   error, openPages, navs, pauses, submit, unitVars, runVars>>

Next ==
    \/ Initialize
    \/ StartBatch
    \/ LoopHead
    \/ NewPage
    \/ Navigate
    \/ Login
    \/ FindInput
    \/ TypeCode
    \/ ProbeSubmit
    \/ PressEnter
    \/ Capture
    \/ DebugScreenshot
    \/ ClosePage
    \/ CatchClose
    \/ Retry
    \/ Push
    \/ Pause
    \/ Close

Spec == Init /\ [][Next]_vars

----------------------------------------------------------------------------
(* The front ends: the example main, the CSV processor, the command-line   *)
(* block of the module, and a caller that uses the exported class in the   *)
(* order of main (processBatch, saveResults, redeemBatch, saveResults) and *)
(* selects the cards by the status the parser assigns.  A call of          *)
(* checkBalance / redeemCard is one step here: it returns one of the       *)
(* records the attempts above can end in, or it throws.                    *)

FrontEnds == {"main", "csv", "cli", "caller"}

\* the options each front end gives to the constructor; an option that is
\* left out is written as the value the constructor treats alike
frontEndOptions(f) ==
    IF f = "csv"
    THEN [headless |-> TRUE, delayBetweenCards |-> 5000, retryAttempts |-> 3,
          region |-> "cn", screenshotOnError |-> TRUE]
    ELSE IF f = "cli"
    THEN [headless |-> FALSE, delayBetweenCards |-> 5000, retryAttempts |-> 0,
          region |-> "cn", screenshotOnError |-> TRUE]
    ELSE [headless |-> FALSE, delayBetweenCards |-> 5000, retryAttempts |-> 3,
          region |-> "cn", screenshotOnError |-> TRUE]

InitRun ==
    /\ UnitIdle
    /\ pc = "start"
    /\ frontEnd \in FrontEnds
    /\ config = Constructor(frontEndOptions(frontEnd))
    /\ codes \in {l \in CodeLists(MaxCodes) : Len(l) > 0}
    /\ mode = "check" /\ browser = "null" /\ i = 0
    /\ results = <<>> /\ redemptionResults = <<>>
    /\ attempt = 0 /\ result = NULL /\ error = NULL /\ openPages = 0
    /\ navs = 0 /\ pauses = 0 /\ submit = NoSubmit
    /\ validCards = <<>> /\ jsonFile = NoFile /\ csvFile = NoFile

\* what the front-end steps leave alone
runFrame == <<config, codes, attempt, result, openPages, navs, pauses, submit,
              frontEnd, unitVars>>

\* a step inside the try block throws: control enters the front end's catch
RunThrow(message) ==
    /\ error' = message
    /\ pc' = "runCatch"

\* await checker.initialize()
RunInitialize ==
    /\ pc = "start"
    /\ \/ browser' = "open" /\ pc' = "processBatch" /\ UNCHANGED error
       \/ browser' = browser /\ RunThrow("Failed to launch the browser process")
    /\ UNCHANGED <<mode, i, results, redemptionResults, validCards, jsonFile, csvFile,
                   runFrame>>

\* the records checkBalance(code) may return
checkBalanceReturns(code) ==
    {parseBalanceResult(self, text, <<"body">>, code, 0) : text \in BatchPageTexts}
        \cup {checkBalanceFailure(self, code, "Protocol error", 0)}

\* the records redeemCard(code, appleId, password) may return
redeemCardReturns(code) ==
    {parseRedemptionResult(self, text, <<"body">>, code, 0) : text \in BatchPageTexts}
        \cup {redeemCardFailure(self, code, "Protocol error", 0)}

\* one turn of the loop of processBatch: checkBalance returns a record, which
\* is pushed, or throws out of processBatch
RunCheckBalance ==
    /\ pc = "processBatch"
    /\ i < Len(codes)
    /\ \/ \E record \in checkBalanceReturns(codes[i + 1]) :
            /\ results' = push(results, record)
            /\ i' = i + 1
            /\ UNCHANGED <<pc, error>>
       \/ RunThrow("Protocol error") /\ UNCHANGED <<results, i>>
    /\ UNCHANGED <<mode, browser, redemptionResults, validCards, jsonFile, csvFile,
                   runFrame>>

\* processBatch returns this.results
RunProcessBatchReturn ==
    /\ pc = "processBatch"
    /\ i = Len(codes)
    /\ pc' = "saveResults"
    /\ UNCHANGED <<mode, browser, i, results, redemptionResults, error, validCards,
                   jsonFile, csvFile, runFrame>>

\* String.prototype.replace(pattern, by) for a pattern that matches the
\* literal text pat: the first occurrence is replaced, a string without one is
\* returned as it is
replace(s, pat, by) ==
    LET hits == {k \in 1..(Len(s) - Len(pat) + 1) : SubSeq(s, k, k + Len(pat) - 1) = pat}
        at == CHOOSE k \in hits : \A h \in hits : k <= h
    IN IF hits = {} THEN s
       ELSE SubSeq(s, 1, at - 1) \o by \o SubSeq(s, at + Len(pat), Len(s))

\* x || d for a field that is null, missing or an empty string
orElse(x, d) == IF x = NULL \/ Falsy(x) THEN d ELSE x

\* this.results.filter(r => r.status === s).length
countStatus(list, s) == Cardinality({k \in 1..Len(list) : list[k].status = s})

\* saveResults(filename): the JSON document written to filename
saveResults(me, filename) ==
    [written |-> TRUE,
     name |-> filename,
     metadata |-> [total |-> Len(me.results),
                   youxiao |-> countStatus(me.results, "youxiao"),
                   wuxiao |-> countStatus(me.results, "wuxiao"),
                   yiduihuan |-> countStatus(me.results, "yiduihuan"),
                   cuowu |-> countStatus(me.results, "cuowu")],
     results |-> me.results]

\* saveCSV(filename): the rows written under the header line
saveCSV(me, filename) ==
    [written |-> TRUE,
     name |-> filename,
     rows |-> [k \in 1..Len(me.results) |->
                  LET r == me.results[k]
                  IN <<r.code, r.status, orElse(r.balance, ""), orElse(r.currency, ""),
                       orElse(r.message, ""), r.timestamp>>]]

\* the call checker.saveResults(filename, ...): fs.writeFileSync of the JSON
\* file, then saveCSV(filename.replace('.json', '.csv')); either write may throw
SaveResults(filename, next) ==
    \/ /\ jsonFile' = saveResults(self, filename)
       /\ csvFile' = saveCSV(self, replace(filename, ".json", ".csv"))
       /\ pc' = next
       /\ UNCHANGED error
    \/ /\ RunThrow("ENOSPC: no space left on device")
       /\ UNCHANGED <<jsonFile, csvFile>>
    \/ /\ jsonFile' = saveResults(self, filename)
       /\ RunThrow("ENOSPC: no space left on device")
       /\ UNCHANGED csvFile

\* the file name each front end gives for the lookup results ("chaxunjieguo"
\* is the Chinese for lookup results; the date is left out); the command-line
\* block gives none and gets the default
lookupFilename(f) ==
    IF f = "csv" THEN "apple_results.json"
    ELSE IF f = "cli" THEN "apple_gift_card_results.json"
    ELSE "chaxunjieguo.json"

\* "duihuanjieguo" is the Chinese for redemption results
redeemFilename == "duihuanjieguo.json"

\* checker.saveResults(filename) after processBatch
RunSaveResults ==
    /\ pc = "saveResults"
    /\ SaveResults(lookupFilename(frontEnd),
                   IF frontEnd \in {"main", "caller"} THEN "filter" ELSE "finally")
    /\ UNCHANGED <<mode, browser, i, results, redemptionResults, validCards, runFrame>>

\* r.code.replace(/-\*\*\*\*-\*\*\*\*-/, '-')
unmask(code) == replace(code, "-****-****-", "-")

\* results.filter(r => r.status === 'valid').map(r => unmask(r.code))
validCardsOf(list) ==
    LET valid == SelectSeq(list, LAMBDA r : r.status = "valid")
    IN [k \in 1..Len(valid) |-> unmask(valid[k].code)]

\* the codes of the cards whose lookup record has the status the parser gives a
\* card with a balance
fullCodesOfValid(given, list) ==
    LET at == SelectSeq([k \in 1..Len(list) |-> k], LAMBDA k : list[k].status = "youxiao")
    IN [j \in 1..Len(at) |-> given[at[j]]]

\* main: const validCards = ...; if (validCards.length > 0) redeemBatch(...)
MainFilter ==
    /\ pc = "filter"
    /\ frontEnd = "main"
    /\ validCards' = validCardsOf(results)
    /\ pc' = IF Len(validCards') > 0 THEN "redeemBatch" ELSE "finally"
    /\ i' = 0
    /\ UNCHANGED <<mode, browser, results, redemptionResults, error, jsonFile, csvFile,
                   runFrame>>

\* the caller selects the codes it gave of the cards found valid
CallerSelect ==
    /\ pc = "filter"
    /\ frontEnd = "caller"
    /\ validCards' = fullCodesOfValid(codes, results)
    /\ pc' = IF Len(validCards') > 0 THEN "redeemBatch" ELSE "finally"
    /\ i' = 0
    /\ UNCHANGED <<mode, browser, results, redemptionResults, error, jsonFile, csvFile,
                   runFrame>>

\* one turn of the loop of redeemBatch
RunRedeemCard ==
    /\ pc = "redeemBatch"
    /\ i < Len(validCards)
    /\ \/ \E record \in redeemCardReturns(validCards[i + 1]) :
            /\ redemptionResults' = push(redemptionResults, record)
            /\ i' = i + 1
            /\ UNCHANGED <<pc, error>>
       \/ RunThrow("Protocol error") /\ UNCHANGED <<redemptionResults, i>>
    /\ UNCHANGED <<mode, browser, results, validCards, jsonFile, csvFile, runFrame>>

\* redeemBatch returns redemptionResults, which the front end names
\* redeemResults
RunRedeemBatchReturn ==
    /\ pc = "redeemBatch"
    /\ i = Len(validCards)
    /\ pc' = "saveRedeemResults"
    /\ UNCHANGED <<mode, browser, i, results, redemptionResults, error, validCards,
                   jsonFile, csvFile, runFrame>>

\* checker.saveResults(filename, redeemResults): saveResults has the one
\* parameter filename, the second argument is bound to nothing
RunSaveRedeemResults ==
    /\ pc = "saveRedeemResults"
    /\ SaveResults(redeemFilename, "finally")
    /\ UNCHANGED <<mode, browser, i, results, redemptionResults, validCards, runFrame>>

\* process.exit(1): the process ends at once, a pending finally block is not run
processExit == "exited"

\* the catch block logs the error; the CSV processor then calls process.exit(1)
RunCatch ==
    /\ pc = "runCatch"
    /\ pc' = IF frontEnd = "csv" THEN processExit ELSE "finally"
    /\ UNCHANGED <<mode, browser, i, results, redemptionResults, error, validCards,
                   jsonFile, csvFile, runFrame>>

\* finally { await checker.close() }: if (this.browser) await this.browser.close()
RunFinally ==
    /\ pc = "finally"
    /\ browser' = IF browser = "open" THEN "closed" ELSE browser
    /\ pc' = "exited"
    /\ UNCHANGED <<mode, i, results, redemptionResults, error, validCards, jsonFile,
                   csvFile, runFrame>>

NextRun ==
    \/ RunInitialize
    \/ RunCheckBalance
    \/ RunProcessBatchReturn
    \/ RunSaveResults
    \/ MainFilter
    \/ CallerSelect
    \/ RunRedeemCard
    \/ RunRedeemBatchReturn
    \/ RunSaveRedeemResults
    \/ RunCatch
    \/ RunFinally

SpecRun == InitRun /\ [][NextRun]_vars

----------------------------------------------------------------------------
(* Properties of the batch run, checked under Spec *)

\* the list the batch returns
returnedList == IF mode = "check" THEN results ELSE redemptionResults

TerminalStatus == IF mode = "check" THEN "cuowu" ELSE "duihuanshibai"

\* C1: when processBatch / redeemBatch returns, the returned list is as long as
\* the input and its k-th record is the record of the k-th input code, whatever
\* mix of successes and exhausted-retry failures the codes produced.
C1_SameLengthSameOrder ==
    pc = "returned" =>
        /\ Len(returnedList) = Len(codes)
        /\ \A k \in 1..Len(codes) : returnedList[k].code = maskCode(codes[k])

C1_Witness ==
    /\ pc = "returned"
    /\ Len(codes) = 2
    /\ codes[1] # codes[2]
    /\ returnedList[1].status = TerminalStatus
    /\ returnedList[2].status = "yiduihuan"

\* the call of checkBalance / redeemCard has ended and every attempt it made
\* failed: it returned the terminal record or it threw
EveryAttemptFailed ==
    \/ pc = "thrown" /\ attempt >= 1
    \/ pc = "push" /\ result.status = TerminalStatus

\* C2 as claimed: with the retry limit N, a call of checkBalance / redeemCard
\* whose every attempt fails makes exactly N attempts and N navigations and then
\* returns one terminal error record carrying the last error's message.
C2_ExactlyNAttempts ==
    EveryAttemptFailed =>
        /\ pc = "push"
        /\ attempt = config.retryAttempts
        /\ navs = config.retryAttempts
        /\ result.message = error

\* C3 as claimed: once the browser session has been started, no failure of a
\* step of processing one code propagates out of checkBalance / redeemCard as a
\* thrown error, so the batch never aborts.
C3_NothingPropagates ==
    browser = "open" => pc # "thrown"

\* C11: at every point of a batch run at most one page opened by the checker
\* is open; every attempt, the first and each retry, opens its page when no
\* other page is open; and when checkBalance / redeemCard has returned its
\* record, no page is open, so none is carried over to the next code.
C11_OnePagePerAttempt ==
    /\ openPages <= 1
    /\ pc = "newPage" => openPages = 0
    /\ pc \in {"push", "pause", "loop", "returned"} => openPages = 0

C11_Witness ==
    /\ pc = "newPage"
    /\ attempt = 2
    /\ navs = 1
    /\ openPages = 0

\* C10: the pause of delayBetweenCards is taken once between the record of code
\* k and the start of code k+1, never before the first code and never after the
\* last record: max(0, n-1) times in a batch of n codes that returns.
C10_PauseBetweenCodes ==
    LET n == Len(codes)
        done == Len(returnedList)
    IN /\ pc \in {"newPage", "navigate", "login", "input", "type", "submit", "capture",
                  "debugShot", "close", "catch", "retry", "push"}
            => pauses = done /\ done < n
       /\ pc = "pause" => pauses = done - 1 /\ done < n
       /\ pc = "loop" => pauses = (IF done = n /\ n > 0 THEN n - 1 ELSE done)
       /\ pc = "returned" => pauses = Max(0, n - 1) /\ done = n

C10_Witness ==
    /\ pc = "returned"
    /\ Len(codes) = 2
    /\ pauses = 1
    /\ returnedList[1].status = TerminalStatus

----------------------------------------------------------------------------
(* Properties of the pure methods, checked under SpecPure *)

RecordMethods == {"parseBalanceResult", "parseRedemptionResult", "checkBalance", "redeemCard"}

\* masked shows the first 4 and the last 4 characters of a code of 8 or more
\* characters around the fixed filler, and is the fixed placeholder otherwise
RevealsOnlyEnds(code, masked) ==
    IF code = Undefined \/ Len(code) < 8
    THEN masked = "****-****"
    ELSE /\ Len(masked) = 19
         /\ SubSeq(masked, 1, 4) = SubSeq(code, 1, 4)
         /\ SubSeq(masked, 5, 15) = "-****-****-"
         /\ SubSeq(masked, 16, 19) = SubSeq(code, Len(code) - 3, Len(code))

\* C4: maskCode reveals only the first 4 and the last 4 characters of an input
\* of length >= 8 and returns the fixed placeholder for a shorter, empty or
\* missing input; the code field of every record made by the parsers and by the
\* terminal branches of checkBalance and redeemCard is that masked code.
C4_MaskRevealsOnlyEnds ==
    /\ ret.f = "maskCode" => RevealsOnlyEnds(argCode, ret.value)
    /\ ret.f \in RecordMethods => RevealsOnlyEnds(argCode, ret.value.code)

C4_Witness ==
    /\ ret.f = "checkBalance"
    /\ argCode = "X87L-WQ5G-7FW3-VGCW"
    /\ ret.value.code = "X87L-****-****-VGCW"

\* C5 as claimed: maskCode(maskCode(c)) = maskCode(c) for every input c,
\* including the inputs shorter than 8 characters.
C5_Idempotent ==
    ret.f = "maskCode(maskCode)" => ret.value = ret.arg

\* C5 as amended: maskCode(maskCode(c)) = maskCode(c) for every input c of
\* length >= 8; for a shorter, empty or missing input maskCode(c) is the
\* 9-character placeholder, and masking that again gives ****-****-****-****.
C5_IdempotentFromEight ==
    ret.f = "maskCode(maskCode)" =>
        IF argCode # Undefined /\ Len(argCode) >= 8
        THEN ret.value = ret.arg
        ELSE ret.arg = "****-****" /\ ret.value = "****-****-****-****"

C5_Witness ==
    /\ ret.f = "maskCode(maskCode)"
    /\ argCode = "A7A7A7A77"
    /\ ret.value = "A7A7-****-****-7A77"

\* the error patterns of parseBalanceResult listed in every order
ErrorPatternOrders ==
    {[k \in 1..Len(errorPatterns) |-> errorPatterns[f[k]]] :
        f \in Permutations(1..Len(errorPatterns))}

\* C6: in parseBalanceResult a page text that matches an already-redeemed phrase
\* is classified yiduihuan (already redeemed), never wuxiao (invalid), whatever
\* other error phrases it matches and in whatever order the patterns are listed.
C6_AlreadyRedeemedWins ==
    (ret.f = "parseBalanceResult" /\ Test(alreadyRedeemedRe, pageText)) =>
        /\ ret.value.status = "yiduihuan"
        /\ \A order \in ErrorPatternOrders :
              parseBalanceResultWith(order, ret.self, pageText, pageHTML, argCode, 1).status
                  = "yiduihuan"

C6_Witness ==
    /\ ret.f = "parseBalanceResult"
    /\ pageText = <<"invalid", "yi", "duihuan">>
    /\ ret.value.status = "yiduihuan"

\* C7 as claimed: a page text that matches an error phrase of the classifier is
\* never given a success outcome (lookup: youxiao with an amount; redemption:
\* yiduihuan with the message 'successfully redeemed to the account').
C7_ErrorBeforeSuccess ==
    /\ (/\ ret.f = "parseBalanceResult"
        /\ FirstTest(errorPatterns, pageText) # 0)
            => ret.value.status # "youxiao"
    /\ (/\ ret.f = "parseRedemptionResult"
        /\ \E k \in 1..Len(redeemErrorPatterns) :
              Test(redeemErrorPatterns[k].pattern, pageText))
            => ~(/\ ret.value.status = "yiduihuan"
                 /\ ret.value.message = "successfully redeemed to the account")

\* a dollar-format amount / a yuan-format amount in the text
DollarAmount(text) == Match(SymNum("$"), text)
YuanAmount(text) == Match(SymNum("yen"), text)

\* C8 as claimed: for a page text with no error phrase that holds a dollar
\* amount and a yuan amount, region us yields the dollar amount with currency $
\* and region cn yields the yuan amount with currency yen.
C8_RegionFirst ==
    (/\ ret.f = "parseBalanceResult"
     /\ FirstTest(errorPatterns, pageText) = 0
     /\ DollarAmount(pageText) # NoMatch
     /\ YuanAmount(pageText) # NoMatch) =>
        IF ret.self.config.region = "us"
        THEN ret.value.currency = "$" /\ ret.value.balance = DollarAmount(pageText)[2]
        ELSE ret.value.currency = "yen" /\ ret.value.balance = YuanAmount(pageText)[2]

\* the checkers, with any configuration and any accumulated results
AnyCallers ==
    {[config |-> [region |-> r], results |-> rs] :
        r \in Regions, rs \in {<<>>, <<ret.value>>}}

\* C9: two calls of parseBalanceResult (of parseRedemptionResult) with the same
\* page text and page HTML return the same status, amount, currency and message,
\* whatever the checker's configuration and results and the time of the call.
C9_Deterministic ==
    /\ ret.f = "parseBalanceResult" =>
          \A other \in AnyCallers, now \in Clock :
              LET r == parseBalanceResult(other, pageText, pageHTML, argCode, now)
              IN <<r.status, r.balance, r.currency, r.message>>
                    = <<ret.value.status, ret.value.balance, ret.value.currency,
                        ret.value.message>>
    /\ ret.f = "parseRedemptionResult" =>
          \A other \in AnyCallers, now \in Clock :
              LET r == parseRedemptionResult(other, pageText, pageHTML, argCode, now)
              IN <<r.status, r.message>> = <<ret.value.status, ret.value.message>>

C9_Witness ==
    /\ ret.f = "parseBalanceResult"
    /\ ret.self.config.region = "us"
    /\ pageText = <<"$", "25", "yen", "88.00">>
    /\ ret.value.status = "youxiao"

\* C13: a screenshot is best-effort: a page.screenshot that fails never makes
\* the attempt fail (no catch, no retry and so no second navigation because of
\* it) and never becomes the message of the record the call returns.
C13_ScreenshotBestEffort ==
    /\ pc \in {"catch", "retry"} => error # ScreenshotFailed
    /\ pc = "push" => result.message # ScreenshotFailed

\* C14: an attempt that gets past the submit step has done exactly one
\* submission: one click of a candidate or one press of Enter, never both and
\* never two clicks; a click ends the probing, and Enter is pressed only after
\* every candidate was probed and none clicked.
C14_OneSubmission ==
    /\ pc = "capture" => submit.clicks + submit.enters = 1
    /\ submit.clicks + submit.enters <= 1
    /\ submit.submitted <=> submit.clicks = 1
    /\ submit.clicks = 1 => submit.selector > Len(submitSelectors(mode))
    /\ submit.enters = 1 => /\ submit.selector > Len(submitSelectors(mode))
                            /\ ~submit.submitted

\* no candidate could be clicked, Enter was pressed
C14_Witness ==
    /\ pc = "capture"
    /\ submit.clicks = 0
    /\ submit.enters = 1
    /\ submit.selector = Len(submitSelectors(mode)) + 1

\* C12: in every front end, a run that started the browser session with
\* initialize() does not end, on any exit path, before close() has closed the
\* session.
C12_SessionClosedOnExit ==
    (pc = processExit /\ browser # "null") => browser = "closed"

\* C15: in the example main, the list passed to redeemBatch holds the full
\* codes, as they were given to processBatch, of exactly the cards whose
\* lookup record says valid, and un-masking the code field of a lookup record
\* gives back the code that was looked up.
C15_ValidCardsAreFullCodes ==
    (frontEnd = "main" /\ pc \in {"redeemBatch", "finally"} /\ error = NULL) =>
        /\ validCards = fullCodesOfValid(codes, results)
        /\ \A k \in 1..Len(results) : unmask(results[k].code) = codes[k]

\* C16: the files written by saveResults(filename, redeemResults) hold the
\* redemption results: the list, the total of the metadata and the CSV rows
\* are those of redeemResults, in order.
C16_SavesRedeemResults ==
    (jsonFile.written /\ jsonFile.name = redeemFilename) =>
        /\ jsonFile.results = redemptionResults
        /\ jsonFile.metadata.total = Len(redemptionResults)
        /\ csvFile.name = replace(redeemFilename, ".json", ".csv") =>
              /\ Len(csvFile.rows) = Len(redemptionResults)
              /\ \A k \in 1..Len(csvFile.rows) :
                    /\ csvFile.rows[k][1] = redemptionResults[k].code
                    /\ csvFile.rows[k][2] = redemptionResults[k].status

====
